---- MODULE Spec2Model ----
(***************************************************************************)
(* A state-machine model of the two MODFLOW-USG package writers of         *)
(* flopyu/modflow: ModflowDdf (mfddf.py) and ModflowPcb (mfpcb.py).        *)
(*                                                                         *)
(* Text is a sequence of one-character strings.  A number is a record      *)
(* [t, w, d]: an int w (t = "int", d = 0) or the float w + d/10            *)
(* (t = "float", w >= 0, d in 0..9).  An optional argument is a record     *)
(* [given, v]; given = FALSE is Python's None.                             *)
(***************************************************************************)
EXTENDS Integers, Sequences, FiniteSets, TLC

VARIABLES
    nper,         \* the parent model's number of stress periods
    structured,   \* the parent model's grid shape (parent.structured)
    packagelist,  \* the parent model's attached packages, in attachment order
    ddf,          \* <<>> before construction, else <<the ModflowDdf instance>>
    pcb,          \* <<>> before construction, else <<the ModflowPcb instance>>
    pc,           \* position of each component's write_file call
    fh,           \* the file handle of each component's latest write_file call
    out,          \* what each component's latest write_file call has emitted
    unitarg,      \* the unitnumber argument each constructor was called with
    nadds,        \* number of add_record calls made so far
    ret,          \* outcome of the latest add_record call
    empty         \* the latest get_empty call and the table it returned

vars == <<nper, structured, packagelist, ddf, pcb, pc, fh, out, unitarg, nadds,
          ret, empty>>

Comps == {"DDF", "PCB"}

(***************************************************************************)
(* Bounds of the model.                                                    *)
(***************************************************************************)
MaxNper == 3
MaxAdds == 2
MaxCells == 5
MaxPackages == 2

(***************************************************************************)
(* Values and their default text conversion (Python's format(v, "")).      *)
(***************************************************************************)
IntV(n) == [t |-> "int", w |-> n, d |-> 0]
FloatV(w, d) == [t |-> "float", w |-> w, d |-> d]

None == [given |-> FALSE, v |-> 0]
Some(n) == [given |-> TRUE, v |-> n]

Digits == <<"0", "1", "2", "3", "4", "5", "6", "7", "8", "9">>

RECURSIVE NatStr(_)
NatStr(n) ==
    IF n < 10 THEN <<Digits[n + 1]>>
    ELSE NatStr(n \div 10) \o <<Digits[(n % 10) + 1]>>

IntStr(n) == IF n < 0 THEN <<"-">> \o NatStr(-n) ELSE NatStr(n)

\* str() of a number: "1000.0" for the float 1000.0, "0" for the int 0.
Str(v) ==
    IF v.t = "int" THEN IntStr(v.w)
    ELSE NatStr(v.w) \o <<".">> \o <<Digits[v.d + 1]>>

\* format(n, "9d"): right-justified in a field at least `width` wide.
RECURSIVE Spaces(_)
Spaces(k) == IF k <= 0 THEN <<>> ELSE <<" ">> \o Spaces(k - 1)

RightJustify(n, width) == Spaces(width - Len(IntStr(n))) \o IntStr(n)

\* str.split(sep): the pieces of s between occurrences of sep.
RECURSIVE SplitOn(_, _)
SplitOn(sep, s) ==
    IF s = <<>> THEN << <<>> >>
    ELSE LET rest == SplitOn(sep, Tail(s)) IN
         IF Head(s) = sep THEN << <<>> >> \o rest
         ELSE << <<Head(s)>> \o Head(rest) >> \o Tail(rest)

RECURSIVE CountOf(_, _)
CountOf(x, s) ==
    IF s = <<>> THEN 0
    ELSE (IF Head(s) = x THEN 1 ELSE 0) + CountOf(x, Tail(s))

\* What a write_file call has emitted so far: the calls it made on the file
\* (events), the characters written, and the transient table's blocks.
NoOutput == [events |-> <<>>, text |-> <<>>, table |-> <<>>]

Emit(o, kind, chars) ==
    [o EXCEPT !.events = Append(@, kind), !.text = @ \o chars]

\* No write_file call of component c is in progress: none was made yet, or the
\* latest one returned or raised.  The program is single-threaded, so only
\* then can the client make its next call on c.
Idle(c) == pc[c] \in {"idle", "returned", "raised"}

(***************************************************************************)
(* ModflowDdf (mfddf.py).                                                  *)
(***************************************************************************)
DdfDefaultunit == 36

\* __init__, lines 24-26: the unit number handed to the base constructor.
DdfUnitnumber(unitnumber) ==
    IF ~unitnumber.given THEN DdfDefaultunit ELSE unitnumber.v

\* __init__: the instance, attached to the parent model (line 38).  A model
\* that already has one gets the new instance attached as well; the client
\* goes on with the new instance, on which no write_file call has been made.
DdfInit(rhofresh, rhostd, cstd, ithickav, imph, isharp, unitnumber) ==
    /\ Idle("DDF") /\ Len(packagelist) < MaxPackages
    /\ ddf' = << [unit_number |-> DdfUnitnumber(unitnumber),
                  rhofresh |-> rhofresh, rhostd |-> rhostd, cstd |-> cstd,
                  ithickav |-> ithickav, imph |-> imph, isharp |-> isharp] >>
    /\ packagelist' = Append(packagelist, "DDF")
    /\ unitarg' = [unitarg EXCEPT !["DDF"] = unitnumber]
    /\ pc' = [pc EXCEPT !["DDF"] = "idle"]
    /\ UNCHANGED <<nper, structured, pcb, fh, out, nadds, ret, empty>>

\* The line as the comment above it lists its items: without isharp.
DdfItem1NoIsharp(p) ==
    Str(p.rhofresh) \o <<" ">> \o Str(p.rhostd) \o <<" ">> \o Str(p.cstd)
        \o <<" ">> \o Str(p.ithickav) \o <<" ">> \o Str(p.imph) \o <<"\n">>

\* The f-string of write_file's single write.
DdfItem1(p) ==
    Str(p.rhofresh) \o <<" ">> \o Str(p.rhostd) \o <<" ">> \o Str(p.cstd)
        \o <<" ">> \o Str(p.ithickav) \o <<" ">> \o Str(p.imph) \o <<" ">>
        \o Str(p.isharp) \o <<"\n">>

\* write_file, line 51: open(fn_path, "w").
DdfOpen ==
    /\ ddf # <<>> /\ Idle("DDF")
    /\ \/ /\ pc' = [pc EXCEPT !["DDF"] = "write"]
          /\ fh' = [fh EXCEPT !["DDF"] = "open"]
          /\ out' = [out EXCEPT !["DDF"] = Emit(NoOutput, "open", <<>>)]
       \/ /\ pc' = [pc EXCEPT !["DDF"] = "raised"]   \* open() raised
          /\ fh' = [fh EXCEPT !["DDF"] = "none"]
          /\ out' = [out EXCEPT !["DDF"] = NoOutput]
    /\ UNCHANGED <<nper, structured, packagelist, ddf, pcb, unitarg, nadds,
                   ret, empty>>

\* write_file, lines 53-55: the one write.  A failing write propagates; the
\* handle is not closed on that path.
DdfWrite ==
    /\ pc["DDF"] = "write"
    /\ \/ /\ pc' = [pc EXCEPT !["DDF"] = "return"]
          /\ out' = [out EXCEPT !["DDF"] = Emit(@, "item1", DdfItem1(ddf[1]))]
       \/ /\ pc' = [pc EXCEPT !["DDF"] = "raised"]
          /\ UNCHANGED out
    /\ UNCHANGED <<nper, structured, packagelist, ddf, pcb, fh, unitarg, nadds,
                   ret, empty>>

\* write_file, line 57: return, without closing f_ddf.  The handle is then
\* unreferenced; whether it has been finalized (and so closed) when the caller
\* resumes depends on the interpreter's collector.
DdfReturn ==
    /\ pc["DDF"] = "return"
    /\ pc' = [pc EXCEPT !["DDF"] = "returned"]
    /\ \E h \in {"open", "closed"} : fh' = [fh EXCEPT !["DDF"] = h]
    /\ UNCHANGED <<nper, structured, packagelist, ddf, pcb, out, unitarg,
                   nadds, ret, empty>>

(***************************************************************************)
(* The table component (flopy's MfList) and the package base, which        *)
(* mfpcb.py delegates to.  A record is the tuple of its fields; the        *)
(* stress-period mapping is a function from period indices to sequences of *)
(* records.                                                                *)
(***************************************************************************)
NoSpd == [given |-> FALSE, v |-> <<>>]
SomeSpd(m) == [given |-> TRUE, v |-> m]

\* MfList(package, data): an absent argument gives the empty mapping.
MfListInit(stress_period_data) ==
    IF stress_period_data.given THEN stress_period_data.v ELSE <<>>

SetMax(S) == CHOOSE x \in S : \A y \in S : y <= x

\* MfList.mxact: the longest record sequence over the periods of the mapping.
mxact(data) ==
    IF DOMAIN data = {} THEN 0 ELSE SetMax({Len(data[k]) : k \in DOMAIN data})

\* The row a list grows by before the new record is stored in it.
BlankRow(dtype) ==
    [j \in 1..Len(dtype) |-> IF dtype[j][2] = "int" THEN 0 ELSE FloatV(0, 0)]

AssertionText == <<"MfList.add_record() error: ", "length of index arg + ",
                   "length of value arg != length of self dtype">>
StoreText == <<"MfList.add_record() error: ", "adding record to recarray">>

\* MfList.add_record(kper, index, values).  A record whose shape is not the
\* dtype's is refused before anything changes; with fault, storing the record
\* fails after the period's list has grown by one row.
MfListAddRecord(data, dtype, kper, index, values, fault) ==
    LET old == IF kper \in DOMAIN data THEN data[kper] ELSE <<>>
        grown(row) == [k \in DOMAIN data \cup {kper} |->
                          IF k = kper THEN Append(old, row) ELSE data[k]]
    IN  IF Len(index) + Len(values) # Len(dtype)
        THEN [failed |-> TRUE, type |-> "AssertionError",
              msg |-> AssertionText, data |-> data]
        ELSE IF fault
        THEN [failed |-> TRUE, type |-> "Exception", msg |-> StoreText,
              data |-> grown(BlankRow(dtype))]
        ELSE [failed |-> FALSE, type |-> "", msg |-> <<>>,
              data |-> grown(index \o values)]

\* MfList.write_transient: one block per stress period of the simulation; a
\* period without a list of its own repeats the last list supplied before it,
\* and the writer fails at a period no list has yet been supplied for.
RECURSIVE TransientFrom(_, _, _, _, _)
TransientFrom(data, kper, n, current, blocks) ==
    IF kper >= n THEN [failed |-> FALSE, blocks |-> blocks]
    ELSE LET cur == IF kper \in DOMAIN data THEN <<data[kper]>> ELSE current
         IN  IF cur = <<>> THEN [failed |-> TRUE, blocks |-> blocks]
             ELSE TransientFrom(data, kper + 1, n, cur,
                      Append(blocks, [kper |-> kper, itmp |-> Len(cur[1]),
                                      recs |-> cur[1]]))

\* Only the periods that have a list of their own get it; the others get none.
write_transient_nocarry(data, n) ==
    [failed |-> FALSE,
     blocks |-> [q \in 1..n |->
                   LET recs == IF (q - 1) \in DOMAIN data THEN data[q - 1]
                               ELSE <<>>
                   IN  [kper |-> q - 1, itmp |-> Len(recs), recs |-> recs]]]

write_transient(data, n) == TransientFrom(data, 0, n, <<>>, <<>>)

\* Package._generate_heading: the banner line of the file.
Heading == <<"#", " ", "P", "C", "B">>

\* Package.add_to_dtype(dtype, names, type): one more column per name.
add_to_dtype(dtype, names, type) ==
    dtype \o [j \in 1..Len(names) |-> <<names[j], type>>]

\* create_empty_recarray(length, dtype, default_value).
create_empty_recarray(length, dtype, value) ==
    [names |-> [j \in 1..Len(dtype) |-> dtype[j][1]],
     types |-> [j \in 1..Len(dtype) |-> dtype[j][2]],
     rows |-> [r \in 1..length |-> [j \in 1..Len(dtype) |-> value]]]

(***************************************************************************)
(* ModflowPcb (mfpcb.py).                                                  *)
(***************************************************************************)
PcbDefaultunit == 37

\* The test "if not unitnumber" in place of "if unitnumber is None".
PcbUnitnumberFalsy(unitnumber) ==
    IF ~unitnumber.given \/ unitnumber.v = 0
    THEN PcbDefaultunit ELSE unitnumber.v

\* __init__, lines 111-113: the unit number handed to the base constructor.
PcbUnitnumber(unitnumber) ==
    IF ~unitnumber.given THEN PcbDefaultunit ELSE unitnumber.v

\* The two grid shapes' fields exchanged.
get_default_dtype_swapped(isStructured) ==
    IF ~isStructured
    THEN << <<"k", "int">>, <<"i", "int">>, <<"j", "int">>,
            <<"ispecies_no", "int">>, <<"conc", "float32">> >>
    ELSE << <<"node", "int">>, <<"ispecies_no", "int">>,
            <<"conc", "float32">> >>

\* get_default_dtype, lines 183-203.
get_default_dtype(isStructured) ==
    IF isStructured
    THEN << <<"k", "int">>, <<"i", "int">>, <<"j", "int">>,
            <<"ispecies_no", "int">>, <<"conc", "float32">> >>
    ELSE << <<"node", "int">>, <<"ispecies_no", "int">>,
            <<"conc", "float32">> >>

NoDtype == [given |-> FALSE, v |-> <<>>]
NoOptions == [given |-> FALSE, v |-> <<>>]
SomeOptions(o) == [given |-> TRUE, v |-> o]
NoAux == [given |-> FALSE, v |-> <<>>]
SomeAux(a) == [given |-> TRUE, v |-> a]

\* __init__: the instance, attached to the parent model (line 137).  A model
\* that already has one gets the new instance attached as well; the client
\* goes on with the new instance, on which no write_file call has been made.
PcbInit(stress_period_data, dtype, options, unitnumber) ==
    /\ Idle("PCB") /\ Len(packagelist) < MaxPackages
    /\ pcb' = << [unit_number |-> PcbUnitnumber(unitnumber),
                  heading |-> Heading,
                  dtype |-> IF dtype.given THEN dtype.v
                            ELSE get_default_dtype(structured),
                  stress_period_data |-> MfListInit(stress_period_data),
                  np |-> 0,
                  options |-> IF ~options.given THEN <<>> ELSE options.v] >>
    /\ packagelist' = Append(packagelist, "PCB")
    /\ unitarg' = [unitarg EXCEPT !["PCB"] = unitnumber]
    /\ pc' = [pc EXCEPT !["PCB"] = "idle"]
    /\ UNCHANGED <<nper, structured, ddf, fh, out, nadds, ret, empty>>

\* The count kept in the instance (self.np) instead of the table's.
ncells_stored(p) == p.np

\* _ncells, line 149.
ncells(p) == mxact(p.stress_period_data)

\* add_record, lines 169-173: the delegate's outcome and what the caller sees.
ErrorPrefix == <<"mfpcb error adding record to list: ">>
NoError == [raised |-> FALSE, type |-> "", msg |-> <<>>]

\* Without the try/except: the delegate's error reaches the caller as is.
add_record_unwrapped(p, kper, index, values, fault) ==
    LET d == MfListAddRecord(p.stress_period_data, p.dtype, kper, index,
                             values, fault)
    IN  [self |-> [p EXCEPT !.stress_period_data = d.data],
         delegate |-> [failed |-> d.failed, type |-> d.type, msg |-> d.msg],
         error |-> [raised |-> d.failed, type |-> d.type, msg |-> d.msg]]

add_record(p, kper, index, values, fault) ==
    LET d == MfListAddRecord(p.stress_period_data, p.dtype, kper, index,
                             values, fault)
    IN  [self |-> [p EXCEPT !.stress_period_data = d.data],
         delegate |-> [failed |-> d.failed, type |-> d.type, msg |-> d.msg],
         error |-> IF d.failed
                   THEN [raised |-> TRUE, type |-> "Exception",
                         msg |-> ErrorPrefix \o d.msg]
                   ELSE NoError]

\* get_empty, lines 175-181.
default_value == [mant |-> -1, exp |-> 10]

get_empty(n, aux_names, isStructured) ==
    LET base == get_default_dtype(isStructured)
        dtype == IF aux_names.given
                 THEN add_to_dtype(base, aux_names.v, "float32") ELSE base
    IN  create_empty_recarray(n, dtype, default_value)

\* The transient table written before the count line.
PcbNextStmtTableFirst(stmt) ==
    CASE stmt = "open" -> "heading"
      [] stmt = "heading" -> "transient"
      [] stmt = "transient" -> "count"
      [] stmt = "count" -> "options"
      [] stmt = "options" -> "newline"
      [] stmt = "newline" -> "close"
      [] stmt = "close" -> "returned"

\* write_file, lines 160-167: the statement that follows each statement.
PcbNextStmt(stmt) ==
    CASE stmt = "open" -> "heading"
      [] stmt = "heading" -> "count"
      [] stmt = "count" -> "options"
      [] stmt = "options" -> "newline"
      [] stmt = "newline" -> "transient"
      [] stmt = "transient" -> "close"
      [] stmt = "close" -> "returned"

\* The for loop of lines 163-164 is left once every option is written.
PcbGoto(stmt, p, o) ==
    IF stmt = "options" /\ CountOf("option", o.events) >= Len(p.options)
    THEN PcbNextStmt("options") ELSE stmt

PcbAfter(stmt, p, o) == PcbGoto(PcbNextStmt(stmt), p, o)

\* The count field without its leading space.
PcbCountFieldNoSpace(p) == RightJustify(mxact(p.stress_period_data), 9)

\* Line 162: the count field.
PcbCountField(p) == <<" ">> \o RightJustify(mxact(p.stress_period_data), 9)

\* Line 164: one option.
PcbOptionField(option) == <<" ", " ">> \o option

PcbVarsElse == <<nper, structured, packagelist, ddf, pcb, unitarg, nadds, ret,
                 empty>>

\* Line 160: open(fn_path, "w").
PcbOpen ==
    /\ pcb # <<>> /\ Idle("PCB")
    /\ \/ /\ fh' = [fh EXCEPT !["PCB"] = "open"]
          /\ out' = [out EXCEPT !["PCB"] = Emit(NoOutput, "open", <<>>)]
          /\ pc' = [pc EXCEPT !["PCB"] = PcbAfter("open", pcb[1], out'["PCB"])]
       \/ /\ pc' = [pc EXCEPT !["PCB"] = "raised"]   \* open() raised
          /\ fh' = [fh EXCEPT !["PCB"] = "none"]
          /\ out' = [out EXCEPT !["PCB"] = NoOutput]
    /\ UNCHANGED PcbVarsElse

\* One write of the call: the event, the characters, the statement it is.
PcbWrite(stmt, kind, chars) ==
    /\ pc["PCB"] = stmt
    /\ out' = [out EXCEPT !["PCB"] = Emit(@, kind, chars)]
    /\ pc' = [pc EXCEPT !["PCB"] = PcbAfter(stmt, pcb[1], out'["PCB"])]
    /\ UNCHANGED fh
    /\ UNCHANGED PcbVarsElse

\* Line 161.
PcbWriteHeading == PcbWrite("heading", "heading", pcb[1].heading \o <<"\n">>)

\* Line 162.
PcbWriteCount == PcbWrite("count", "count", PcbCountField(pcb[1]))

\* Lines 163-164: the next option of the sequence.
PcbWriteOption ==
    /\ pc["PCB"] = "options"
    /\ LET i == CountOf("option", out["PCB"].events) + 1 IN
         /\ out' = [out EXCEPT !["PCB"] =
                        Emit(@, "option", PcbOptionField(pcb[1].options[i]))]
         /\ pc' = [pc EXCEPT !["PCB"] = PcbGoto("options", pcb[1], out'["PCB"])]
    /\ UNCHANGED fh
    /\ UNCHANGED PcbVarsElse

\* Line 165.
PcbWriteNewline == PcbWrite("newline", "newline", <<"\n">>)

\* Line 166: the table component writes the transient table, or fails.
PcbWriteTransient ==
    /\ pc["PCB"] = "transient"
    /\ LET t == write_transient(pcb[1].stress_period_data, nper) IN
         IF t.failed
         THEN /\ pc' = [pc EXCEPT !["PCB"] = "raised"]
              /\ UNCHANGED out
         ELSE /\ out' = [out EXCEPT !["PCB"] =
                            [Emit(@, "transient", <<>>) EXCEPT
                                !.table = t.blocks]]
              /\ pc' = [pc EXCEPT !["PCB"] =
                           PcbAfter("transient", pcb[1], out'["PCB"])]
    /\ UNCHANGED fh
    /\ UNCHANGED PcbVarsElse

\* Line 167: f_pcb.close().  The call is made and the handle is closed either
\* way; close() flushes the buffered text and may raise (a full disk), and
\* that error propagates like any other.
PcbClose ==
    /\ pc["PCB"] = "close"
    /\ fh' = [fh EXCEPT !["PCB"] = "closed"]
    /\ out' = [out EXCEPT !["PCB"] = Emit(@, "close", <<>>)]
    /\ \/ pc' = [pc EXCEPT !["PCB"] = PcbAfter("close", pcb[1], out'["PCB"])]
       \/ pc' = [pc EXCEPT !["PCB"] = "raised"]      \* close() raised
    /\ UNCHANGED PcbVarsElse

\* A statement of lines 161-166 raises (the write fails, or formatting the
\* value it writes does): nothing catches it, and line 167 is not reached.
PcbWriteFails ==
    /\ pc["PCB"] \in {"heading", "count", "options", "newline", "transient"}
    /\ pc' = [pc EXCEPT !["PCB"] = "raised"]
    /\ UNCHANGED <<fh, out>>
    /\ UNCHANGED PcbVarsElse

(***************************************************************************)
(* Inputs.                                                                 *)
(***************************************************************************)
UnitArgs == {None, Some(0), Some(36), Some(37)}

RhofreshArgs == {FloatV(1000, 0), FloatV(999, 7)}
RhostdArgs == {FloatV(1025, 0), FloatV(1025, 5)}
CstdArgs == {FloatV(1, 0), FloatV(35, 5)}
IthickavArgs == {IntV(0), IntV(1)}
ImphArgs == {IntV(0), IntV(1)}
IsharpArgs == {IntV(0), IntV(-1)}

Cell(isStructured, n) == IF isStructured THEN <<n, n + 1, n + 2>> ELSE <<n>>

Rec1(isStructured) == Cell(isStructured, 2) \o <<1, FloatV(10, 0)>>
Rec2(isStructured) == Cell(isStructured, 5) \o <<2, FloatV(35, 5)>>
Rec3(isStructured) == Cell(isStructured, 7) \o <<1, FloatV(0, 5)>>

SpdArgs(isStructured) ==
    { NoSpd,
      SomeSpd(0 :> <<Rec1(isStructured)>>),
      SomeSpd((0 :> <<Rec1(isStructured), Rec2(isStructured)>>)
                 @@ (2 :> <<Rec3(isStructured)>>)),
      SomeSpd(1 :> <<Rec2(isStructured)>>) }

OptionArgs ==
    { NoOptions,
      SomeOptions(<< <<"N", "P">> >>),
      SomeOptions(<< <<"A", "U", "X">>, <<"N", "P">> >>) }

\* A well-formed index and one a field short.
IndexArgs(isStructured) ==
    { Cell(isStructured, 3),
      IF isStructured THEN <<3, 4>> ELSE <<>> }

\* The model's number of stress periods: one, or as many as the bound allows.
NperArgs == {1, MaxNper}

\* add_record's period: the first and the last the bound allows.
KperArgs == {0, MaxNper - 1}

ValuesArgs == { <<2, FloatV(0, 5)>> }

AuxArgs == { NoAux, SomeAux(<<"iface">>), SomeAux(<<"a1", "a2">>) }

(***************************************************************************)
(* The calls a client makes.                                               *)
(***************************************************************************)
NoRet == [called |-> FALSE,
          delegate |-> [failed |-> FALSE, type |-> "", msg |-> <<>>],
          error |-> NoError]

NoEmpty == [called |-> FALSE, n |-> 0, aux_names |-> NoAux,
            structured |-> TRUE,
            table |-> [names |-> <<>>, types |-> <<>>, rows |-> <<>>]]

Init ==
    /\ nper \in NperArgs
    /\ structured \in BOOLEAN
    /\ packagelist = <<>>
    /\ ddf = <<>>
    /\ pcb = <<>>
    /\ pc = [c \in Comps |-> "idle"]
    /\ fh = [c \in Comps |-> "none"]
    /\ out = [c \in Comps |-> NoOutput]
    /\ unitarg = [c \in Comps |-> None]
    /\ nadds = 0
    /\ ret = NoRet
    /\ empty = NoEmpty

\* ModflowDdf(model, rhofresh, ..., isharp) with every scalar drawn from its
\* inputs and the unit number left to its default.
ConstructDdf ==
    \E rhofresh \in RhofreshArgs, rhostd \in RhostdArgs, cstd \in CstdArgs,
       ithickav \in IthickavArgs, imph \in ImphArgs, isharp \in IsharpArgs :
        DdfInit(rhofresh, rhostd, cstd, ithickav, imph, isharp, None)

\* ModflowDdf(model, unitnumber=...): lines 15-20 give the scalars' defaults.
ConstructDdfDefault ==
    \E unitnumber \in UnitArgs :
        DdfInit(FloatV(1000, 0), FloatV(1025, 0), FloatV(1, 0), IntV(0),
                IntV(0), IntV(0), unitnumber)

\* ModflowPcb(model, stress_period_data=..., options=...).
ConstructPcb ==
    \E spd \in SpdArgs(structured), options \in OptionArgs :
        PcbInit(spd, NoDtype, options, None)

\* ModflowPcb(model, stress_period_data={0: [record]}, options=...,
\* unitnumber=...): one record of the documented form
\* [lay, row, col, iSpecies_No, Conc] (lines 35-52) in period 0.
ConstructPcbUnit ==
    \E options \in {NoOptions, SomeOptions(<< <<"N", "P">> >>)},
       unitnumber \in UnitArgs :
        PcbInit(SomeSpd(0 :> <<Rec1(structured)>>), NoDtype, options,
                unitnumber)

\* Package.load(f, model, cls, nper, check, ext_unit_dict): the package base's
\* loader builds cls(model, ...) from what it reads in f and returns it.
PackageLoad(f, nperArg, check, ext_unit_dict) ==
    PcbInit(SomeSpd(f.stress_period_data), NoDtype, SomeOptions(f.options),
            ext_unit_dict)

\* load, lines 209-255: everything is handed to the package base's loader.
load(f, nperArg, check, ext_unit_dict) ==
    PackageLoad(f, nperArg, check, ext_unit_dict)

\* What a package file holds, as the loader reads it.
FileArgs(isStructured) ==
    { [stress_period_data |-> spd.v, options |-> o] :
        spd \in SpdArgs(isStructured) \ {NoSpd},
        o \in { <<>>, << <<"N", "P">> >> } }

\* ModflowPcb.load(f, model): nper, ext_unit_dict and check at their defaults.
LoadPcb ==
    \E f \in FileArgs(structured) : load(f, None, TRUE, None)

\* pcb.add_record(kper, index, values), before or after a write_file call.
AddRecord ==
    /\ pcb # <<>> /\ Idle("PCB") /\ nadds < MaxAdds
    /\ \E kper \in KperArgs, index \in IndexArgs(structured),
          values \in ValuesArgs, fault \in BOOLEAN :
         LET r == add_record(pcb[1], kper, index, values, fault) IN
           /\ pcb' = <<r.self>>
           /\ ret' = [called |-> TRUE, delegate |-> r.delegate,
                      error |-> r.error]
    /\ nadds' = nadds + 1
    /\ UNCHANGED <<nper, structured, packagelist, ddf, pc, fh, out, unitarg,
                   empty>>

\* ModflowPcb.get_empty(ncells, aux_names, structured): a static call.
GetEmpty ==
    /\ \E n \in 0..MaxCells, aux_names \in AuxArgs, s \in BOOLEAN :
         empty' = [called |-> TRUE, n |-> n, aux_names |-> aux_names,
                   structured |-> s, table |-> get_empty(n, aux_names, s)]
    /\ UNCHANGED <<nper, structured, packagelist, ddf, pcb, pc, fh, out,
                   unitarg, nadds, ret>>

\* Both components on one model: construction and writing.
Next ==
    \/ ConstructDdfDefault \/ ConstructPcbUnit \/ LoadPcb
    \/ DdfOpen \/ DdfWrite \/ DdfReturn
    \/ PcbOpen \/ PcbWriteHeading \/ PcbWriteCount \/ PcbWriteOption
    \/ PcbWriteNewline \/ PcbWriteTransient \/ PcbClose \/ PcbWriteFails

Spec == Init /\ [][Next]_vars

\* The density-flow component alone, over all its scalar inputs.
NextDdf == ConstructDdf \/ DdfOpen \/ DdfWrite \/ DdfReturn

SpecDdf == Init /\ [][NextDdf]_vars

\* The boundary component alone, over its stress-period inputs.
NextPcb ==
    \/ ConstructPcb \/ LoadPcb \/ AddRecord
    \/ PcbOpen \/ PcbWriteHeading \/ PcbWriteCount \/ PcbWriteOption
    \/ PcbWriteNewline \/ PcbWriteTransient \/ PcbClose \/ PcbWriteFails

SpecPcb == Init /\ [][NextPcb]_vars

\* The static factory beside a boundary instance.
NextEmpty == ConstructPcb \/ GetEmpty

SpecEmpty == Init /\ [][NextEmpty]_vars

(***************************************************************************)
(* Reading a file back, for the properties below.                          *)
(***************************************************************************)
RECURSIVE LStrip(_)
LStrip(s) == IF s # <<>> /\ Head(s) = " " THEN LStrip(Tail(s)) ELSE s

DigitSet == {Digits[k] : k \in 1..10}
DigitVal(c) == (CHOOSE k \in 1..10 : Digits[k] = c) - 1

RECURSIVE ParseDigits(_, _)
ParseDigits(s, acc) ==
    IF s = <<>> THEN acc
    ELSE IF Head(s) \notin DigitSet THEN -1
    ELSE ParseDigits(Tail(s), 10 * acc + DigitVal(Head(s)))

\* The natural number s spells, or -1 when s is not a run of digits.
ParseNat(s) == IF s = <<>> THEN -1 ELSE ParseDigits(s, 0)

Lines(o) == SplitOn("\n", o.text)

RECURSIVE Concat(_)
Concat(ss) == IF ss = <<>> THEN <<>> ELSE Head(ss) \o Concat(Tail(ss))

IsInfix(a, b) ==
    \E k \in 0..(Len(b) - Len(a)) : SubSeq(b, k + 1, k + Len(a)) = a

Has(o, kind) == \E k \in 1..Len(o.events) : o.events[k] = kind

IsPrefix(a, b) == Len(a) <= Len(b) /\ SubSeq(b, 1, Len(a)) = a

(***************************************************************************)
(* C1.  ModflowDdf.write_file emits exactly one line: the six values in    *)
(* the order rhofresh, rhostd, cstd, ithickav, imph, isharp, separated by  *)
(* single spaces and ended by one newline, with nothing written before or  *)
(* after it.  The line is that of the instance the call was made on: a     *)
(* newly constructed instance has written nothing yet.                     *)
(***************************************************************************)
DdfWritesOneLine ==
    LET o == out["DDF"] IN
    IF pc["DDF"] \in {"return", "returned"}
    THEN LET p == ddf[1]
             t == o.text
         IN  /\ o.events = <<"open", "item1">>
             /\ t # <<>> /\ t[Len(t)] = "\n" /\ CountOf("\n", t) = 1
             /\ SplitOn(" ", SubSeq(t, 1, Len(t) - 1))
                    = <<Str(p.rhofresh), Str(p.rhostd), Str(p.cstd),
                        Str(p.ithickav), Str(p.imph), Str(p.isharp)>>
    ELSE pc["DDF"] # "idle" => o.text = <<>>

DdfLineWitness ==
    /\ pc["DDF"] = "returned"
    /\ out["DDF"].text = <<"9", "9", "9", ".", "7", " ", "1", "0", "2", "5",
                           ".", "0", " ", "3", "5", ".", "5", " ", "0", " ",
                           "1", " ", "-", "1", "\n">>

(***************************************************************************)
(* C2.  ModflowPcb.write_file calls the file in one order only: open, the  *)
(* heading line, the count, every option, the newline ending the count     *)
(* line, the transient table, close.  At every moment the calls made are a *)
(* prefix of that sequence, so no table output precedes the count line and *)
(* nothing is written after the close; a call that returned made them all, *)
(* and the handle is closed exactly when close was called.  The options   *)
(* are those of the instance the call was made on.                         *)
(***************************************************************************)
PcbCanonicalEvents(p) ==
    <<"open", "heading", "count">> \o [k \in 1..Len(p.options) |-> "option"]
        \o <<"newline", "transient", "close">>

PcbWriteOrder ==
    LET o == out["PCB"] IN
    /\ (pcb # <<>> /\ pc["PCB"] # "idle" =>
          /\ IsPrefix(o.events, PcbCanonicalEvents(pcb[1]))
          /\ (pc["PCB"] = "returned" => o.events = PcbCanonicalEvents(pcb[1])))
    /\ (fh["PCB"] = "closed" <=> Has(o, "close"))
    /\ (o.table # <<>> => Has(o, "transient"))

PcbWriteOrderWitness ==
    /\ pc["PCB"] = "returned"
    /\ Len(pcb[1].options) = 2
    /\ Len(out["PCB"].table) = 3

(***************************************************************************)
(* C3.  The count line of ModflowPcb.write_file, as amended: one space,    *)
(* then the maximum record count right-justified in a 9-character field    *)
(* (ten columns in all), then every token of the options sequence in the   *)
(* sequence's order, none omitted or repeated, each preceded by two        *)
(* spaces, then a newline; with no options the line is the 10 columns      *)
(* alone.  The count is that of the mapping as the call finds it, so the   *)
(* line is read while the call that wrote it is still in progress.         *)
(***************************************************************************)
PcbCountLine == Lines(out["PCB"])[2]

PcbCountLineFormat ==
    ~Idle("PCB") /\ Has(out["PCB"], "newline") =>
        LET p == pcb[1]
            line == PcbCountLine
            n == mxact(p.stress_period_data)
        IN  /\ Len(line) >= 10
            /\ line[1] = " "
            /\ ParseNat(LStrip(SubSeq(line, 2, 10))) = n
            /\ SubSeq(line, 11, Len(line))
                   = Concat([k \in 1..Len(p.options) |->
                                <<" ", " ">> \o p.options[k]])
            /\ (p.options = <<>> => Len(line) = 10)

PcbCountLineWitness ==
    /\ pc["PCB"] = "close"
    /\ PcbCountLine = <<" ", " ", " ", " ", " ", " ", " ", " ", " ", "2",
                        " ", " ", "A", "U", "X", " ", " ", "N", "P">>

\* C3 as stated: the line begins with the count right-justified in its first
\* 9 characters, the options follow it at once, and with no options the line
\* is those 9 characters alone.
PcbCountLineAsStated ==
    ~Idle("PCB") /\ Has(out["PCB"], "newline") =>
        LET p == pcb[1]
            line == PcbCountLine
        IN  /\ Len(line) >= 9
            /\ ParseNat(LStrip(SubSeq(line, 1, 9)))
                   = mxact(p.stress_period_data)
            /\ (p.options = <<>> => Len(line) = 9)

(***************************************************************************)
(* C4.  Carry-forward: in the transient table written for a model of nper  *)
(* stress periods, every period uses the list of the largest supplied      *)
(* period index not exceeding it; with the single list                     *)
(* {0: [(2,3,4,1,10.0)]} and 3 periods that list is used for periods 0, 1  *)
(* and 2 and the maximum active count is 1.  The table is compared with    *)
(* the mapping right after it is written, before the call returns.         *)
(***************************************************************************)
CarryForward ==
    ~Idle("PCB") /\ Has(out["PCB"], "transient") =>
        LET data == pcb[1].stress_period_data
            table == out["PCB"].table
        IN  /\ Len(table) = nper
            /\ \A q \in 0..(nper - 1) :
                  LET S == {k \in DOMAIN data : k <= q} IN
                  S # {} => /\ table[q + 1].kper = q
                            /\ table[q + 1].recs = data[SetMax(S)]
            /\ (nper = 3 /\ structured /\ DOMAIN data = {0}
                    /\ data[0] = << <<2, 3, 4, 1, FloatV(10, 0)>> >>
                 => /\ \A q \in 1..3 :
                         table[q].recs = << <<2, 3, 4, 1, FloatV(10, 0)>> >>
                    /\ ncells(pcb[1]) = 1)

CarryForwardWitness ==
    /\ pc["PCB"] = "close" /\ Has(out["PCB"], "transient")
    /\ nper = 3 /\ structured
    /\ DOMAIN pcb[1].stress_period_data = {0}
    /\ pcb[1].stress_period_data[0] = << <<2, 3, 4, 1, FloatV(10, 0)>> >>

(***************************************************************************)
(* C5.  Once the boundary component exists, and after any add_record calls *)
(* (successful or failed, before or after an earlier write_file), the      *)
(* maximum active count it reports, and the count a write_file call puts   *)
(* on the count line, is the greatest record-sequence length over the      *)
(* periods now in the mapping (0 for an empty mapping).  A file written    *)
(* before a later add_record keeps the count it was written with, so the   *)
(* line is read while the call that wrote it is in progress.               *)
(***************************************************************************)
MaxActiveCountCurrent ==
    pcb # <<>> =>
        LET data == pcb[1].stress_period_data
            n == ncells(pcb[1])
        IN  /\ \A k \in DOMAIN data : Len(data[k]) <= n
            /\ IF DOMAIN data = {} THEN n = 0
               ELSE \E k \in DOMAIN data : Len(data[k]) = n
            /\ (~Idle("PCB") /\ Has(out["PCB"], "count") =>
                   /\ Len(PcbCountLine) >= 10
                   /\ ParseNat(LStrip(SubSeq(PcbCountLine, 2, 10))) = n)

MaxActiveCountWitness ==
    /\ pcb # <<>> /\ nadds >= 2
    /\ ret.called /\ ret.delegate.failed
    /\ ncells(pcb[1]) = 3
    /\ pc["PCB"] = "options" /\ Has(out["PCB"], "count")

(***************************************************************************)
(* C6.  Whenever the table's add-record operation fails, add_record raises *)
(* an error of the generic type whose message is the fixed prefix followed *)
(* by the delegate's failure text (which is thus a substring of it), not   *)
(* the delegate's own error; when the delegate succeeds, add_record raises *)
(* nothing.                                                                *)
(***************************************************************************)
AddRecordWraps ==
    ret.called =>
        IF ret.delegate.failed
        THEN /\ ret.error.raised
             /\ ret.error.type = "Exception"
             /\ ret.error.msg
                    = <<"mfpcb error adding record to list: ">>
                          \o ret.delegate.msg
             /\ IsInfix(ret.delegate.msg, ret.error.msg)
             /\ ret.error.msg # ret.delegate.msg
        ELSE ~ret.error.raised

AddRecordWrapsWitness ==
    /\ ret.called /\ ret.delegate.failed
    /\ ret.delegate.type = "AssertionError"
    /\ ret.error.raised

(***************************************************************************)
(* C7 (write_file followed by load reproduces the stress-period mapping)   *)
(* is not stated here: load, lines 209-255, hands the file to the package  *)
(* base's loader, and the table's text layout belongs to the table         *)
(* component; neither is part of mfpcb.py.                                 *)
(***************************************************************************)

(***************************************************************************)
(* C8.  Constructed without a unit number, the density-flow component has  *)
(* unit number 36 and the boundary component 37; a unit number given       *)
(* explicitly is kept unchanged; and when both are attached to one model   *)
(* with defaults, in either order, their unit numbers differ.              *)
(***************************************************************************)
Attached(c) == \E k \in 1..Len(packagelist) : packagelist[k] = c

UnitNumbers ==
    /\ (ddf # <<>> =>
          ddf[1].unit_number
             = (IF unitarg["DDF"].given THEN unitarg["DDF"].v ELSE 36))
    /\ (pcb # <<>> =>
          pcb[1].unit_number
             = (IF unitarg["PCB"].given THEN unitarg["PCB"].v ELSE 37))
    /\ (Attached("DDF") /\ Attached("PCB")
            /\ ~unitarg["DDF"].given /\ ~unitarg["PCB"].given
         => ddf[1].unit_number # pcb[1].unit_number)

UnitNumbersWitness ==
    /\ packagelist = <<"PCB", "DDF">>
    /\ ~unitarg["DDF"].given /\ ~unitarg["PCB"].given
    /\ ddf[1].unit_number = 36 /\ pcb[1].unit_number = 37

(***************************************************************************)
(* C9.  get_empty(n, aux_names, structured) returns a table of exactly n   *)
(* records, every field of every record the sentinel -1.0e10, with the     *)
(* fields k, i, j, ispecies_no, conc for a structured grid and node,       *)
(* ispecies_no, conc for an unstructured one, followed by one float column *)
(* per auxiliary name; the call changes no existing instance.              *)
(***************************************************************************)
EmptyTableShape(e) ==
    LET t == e.table
        base == IF e.structured
                THEN <<"k", "i", "j", "ispecies_no", "conc">>
                ELSE <<"node", "ispecies_no", "conc">>
        aux == IF e.aux_names.given THEN e.aux_names.v ELSE <<>>
    IN  /\ Len(t.rows) = e.n
        /\ t.names = base \o aux
        /\ Len(t.types) = Len(t.names)
        /\ \A j \in (Len(base) + 1)..Len(t.types) : t.types[j] = "float32"
        /\ \A r \in 1..Len(t.rows) :
              /\ Len(t.rows[r]) = Len(t.names)
              /\ \A j \in 1..Len(t.rows[r]) :
                    t.rows[r][j] = [mant |-> -1, exp |-> 10]

GetEmptyIsPureFactory ==
    [][empty' # empty =>
          /\ EmptyTableShape(empty')
          /\ UNCHANGED <<pcb, ddf, packagelist, out, fh>>]_vars

GetEmptyWitness ==
    /\ pcb # <<>>
    /\ empty.called /\ empty.n = 5 /\ ~empty.structured
    /\ empty.table.names = <<"node", "ispecies_no", "conc", "a1", "a2">>
    /\ Len(empty.table.rows) = 5

(***************************************************************************)
(* C10.  Every write_file call, of either component, opens the output file *)
(* once, and once the call has finished, by returning or by a failure that *)
(* propagated to the caller, the handle it opened is closed.               *)
(***************************************************************************)
WriteFileReleasesHandle ==
    \A c \in Comps :
        pc[c] \in {"returned", "raised"} =>
            /\ CountOf("open", out[c].events) <= 1
            /\ fh[c] # "open"

====
